---- MODULE Spec2Model ----
(***************************************************************************)
(* Tic-Tac-Toe game-state engine: the Board, Player, Tie and Game          *)
(* factories with the validation helpers they call.                        *)
(*                                                                         *)
(* JavaScript values are modelled as records.  Primitives and arrays carry *)
(* a "type" tag and a "val"; plain objects (the state objects the          *)
(* factories close over) are records of their own fields.  A thrown Error  *)
(* is the record [error |-> message]: every operator that models a         *)
(* function returns the function's value or the Error it throws, and a     *)
(* method called on a receiver that threw propagates that Error.           *)
(*                                                                         *)
(* A function body with intermediate constants is written as a chain of    *)
(* operators, each taking the constants computed so far as parameters.     *)
(***************************************************************************)
EXTENDS Integers, Sequences, FiniteSets, TLC

(***************************************************************************)
(* Bounds of the model.                                                    *)
(***************************************************************************)
\* Accepted moves are explored while fewer than MaxRounds rounds have ended.
MaxRounds == 2

(***************************************************************************)
(* JavaScript values.                                                      *)
(***************************************************************************)
Undefined == [type |-> "undefined"]
Null == [type |-> "null"]
Num(n) == [type |-> "number", val |-> n]
Str(s) == [type |-> "string", val |-> s]
Bool(b) == [type |-> "boolean", val |-> b]
Arr(s) == [type |-> "array", val |-> s]

Err(msg) == [error |-> msg]
IsErr(v) == "error" \in DOMAIN v

\* Statement sequencing: `e; v` is the Error e throws, or else v.
Try(e, v) == IF IsErr(e) THEN e ELSE v

\* typeof: arrays, null and plain objects are all "object".
typeof(v) ==
  IF "type" \in DOMAIN v
    THEN (IF v.type \in {"array", "null"} THEN "object" ELSE v.type)
    ELSE "object"

\* Array.isArray
isArray(v) == "type" \in DOMAIN v /\ v.type = "array"

\* Truthiness, as used by `if (x)`, `!x` and `c ? a : b`.
Truthy(v) ==
  IF "type" \notin DOMAIN v THEN TRUE
  ELSE CASE v.type = "undefined" -> FALSE
         [] v.type = "null" -> FALSE
         [] v.type = "number" -> v.val # 0
         [] v.type = "string" -> Len(v.val) > 0
         [] v.type = "boolean" -> v.val
         [] OTHER -> TRUE

\* A default parameter value applies when the argument is undefined.
DefaultParam(arg, dflt) == IF arg = Undefined THEN dflt ELSE arg

\* array[i] with a zero-based index.
At(array, i) == array.val[i + 1]

Min(a, b) == IF a < b THEN a ELSE b

\* String.prototype.slice(0, end) for 0 <= end.
slice(s, end) == SubSeq(s, 1, Min(Len(s), end))

(***************************************************************************)
(* utils/validation.js                                                     *)
(***************************************************************************)
validateSize(size) ==
  IF typeof(size) # "number" THEN Err("Size must be a number.")
  ELSE IF size.val # 3 THEN Err("Size must be 3.")
  ELSE size

validateSymbol(symbol) ==
  IF typeof(symbol) # "string" THEN Err("Symbol must be a string.")
  ELSE IF Len(symbol.val) # 1 THEN Err("Symbol must be a single character.")
  ELSE symbol

validateIndex(index, size) ==
  IF typeof(index) # "number" THEN Err("Index must be a number.")
  ELSE IF index.val < 0 \/ index.val >= size
    THEN Err("Index must be a positive integer within the board size.")
  ELSE index

validatePlayerId(number) ==
  IF typeof(number) # "number" THEN Err("Player id must be a number")
  ELSE IF number.val < 0 THEN Err("Player id must be a positive number")
  ELSE number

validateScore(number) ==
  IF typeof(number) # "number" THEN Err("Player score must be a number")
  ELSE IF number.val < 0 THEN Err("Player score must be a positive number")
  ELSE number

validateName(name) ==
  IF typeof(name) # "string" THEN Err("Player name must be a string")
  ELSE IF Len(name.val) < 1
    THEN Err("Player name must be at least 1 character long")
  ELSE IF Len(name.val) > 12
    THEN Err("Player name must be at most 12 characters long")
  ELSE name

validateIsBoolean(value) ==
  IF typeof(value) # "boolean" THEN Err("Value must be a boolean")
  ELSE value

\* validateObject(requiredMethods)(object).  The objects of the model are
\* the state records of the factories, which carry every required method.
validateObject(object) ==
  IF typeof(object) # "object" \/ object = Null
    THEN Err("Object must be a valid object")
  ELSE Undefined

validateWinCells(winCells, size) ==
  IF ~isArray(winCells) THEN Err("Win cells must be an array")
  ELSE IF Len(winCells.val) # size.val
    THEN Err("Win cells must have a length of 3")
  ELSE Undefined

(***************************************************************************)
(* models/board.js                                                         *)
(***************************************************************************)
SIZE == 3
FILLER == Str("_")

makeRow(size, filler) == Arr([c \in 1..size |-> filler])

makeGrid(size, filler) == Arr([r \in 1..size |-> makeRow(size, filler)])

DefaultBoard ==
  [size |-> Num(SIZE), filler |-> FILLER, grid |-> makeGrid(SIZE, FILLER)]

\* The body of makeBoard once its parameter is bound.  The board object is
\* identified with the state object it closes over.
makeBoardOf(board) ==
  Try(validateSize(board.size), Try(validateSymbol(board.filler), board))

makeBoard(boardArg) == makeBoardOf(DefaultParam(boardArg, DefaultBoard))

getSize(board) == board.size

getFiller(board) == board.filler

getGrid(board) == board.grid

\* Array.prototype.every(cell => cell === symbol)
every(line, symbol) == \A i \in 1..Len(line.val) : line.val[i] = symbol

\* grid.map((r, i) => r[pick(i)]) for a zero-based i
getRow(board, row) ==
  Try(validateIndex(row, SIZE), At(board.grid, row.val))

getCol(board, col) ==
  Try(validateIndex(col, SIZE),
      Arr([r \in 1..Len(board.grid.val) |-> At(board.grid.val[r], col.val)]))

getDiag(board) ==
  Arr([r \in 1..Len(board.grid.val) |-> At(board.grid.val[r], r - 1)])

\* A getAntiDiag that reads the main diagonal.
getAntiDiag_asDiag(board) == getDiag(board)

getAntiDiag(board) ==
  Arr([r \in 1..Len(board.grid.val) |->
         At(board.grid.val[r], board.size.val - 1 - (r - 1))])

getLines(board, row, col) ==
  <<getRow(board, row), getCol(board, col), getDiag(board), getAntiDiag(board)>>

\* [row, col].forEach(index => validateIndex(index, SIZE))
validateIndices(row, col) ==
  Try(validateIndex(row, SIZE), Try(validateIndex(col, SIZE), Undefined))

\* A resetBoard that hands back the board it was given.
resetBoard_keeps(board) == board

resetBoard(board) == makeBoard(Undefined)

\* A getCell that wraps an index around the board instead of validating it.
getCell_wraps(board, row, col) ==
  At(At(board.grid, row.val % SIZE), col.val % SIZE)

getCell(board, row, col) ==
  Try(validateIndices(row, col), At(At(board.grid, row.val), col.val))

\* A copy that starts from an empty grid.
JSONCopy_blank(grid) == makeGrid(SIZE, FILLER)

\* JSON.parse(JSON.stringify(grid)): a fresh array of fresh arrays; a string
\* cell is written as a JSON string and read back as a string of the same
\* characters.
JSONCopy(grid) ==
  Arr([r \in 1..Len(grid.val) |->
         Arr([c \in 1..Len(grid.val[r].val) |-> Str(grid.val[r].val[c].val)])])

\* if (updatedGrid[row][col] === filler) updatedGrid[row][col] = symbol
\* A write that does not look at what the cell holds.
setCellWrite_always(updatedGrid, row, col, symbol, filler) ==
  Arr([updatedGrid.val EXCEPT ![row.val + 1] =
         Arr([@.val EXCEPT ![col.val + 1] = symbol])])

setCellWrite(updatedGrid, row, col, symbol, filler) ==
  IF At(At(updatedGrid, row.val), col.val) = filler
    THEN Arr([updatedGrid.val EXCEPT ![row.val + 1] =
                Arr([@.val EXCEPT ![col.val + 1] = symbol])])
    ELSE updatedGrid

\* An updatedGrid that is the board's own array.
updatedGridRef_alias(gridRef) == gridRef

\* The array `const updatedGrid` refers to: JSON.parse returns a new array
\* ("parsed"), never the one JSON.stringify was given.
updatedGridRef(gridRef) == "parsed"

\* The grid of the board setCell is called on, as it reads after the call:
\* the one write of setCell goes to the array updatedGrid refers to.
gridAfterSetCell(board, row, col, symbol) ==
  IF IsErr(validateIndices(row, col)) THEN board.grid
  ELSE IF updatedGridRef("grid") = "grid"
    THEN setCellWrite(board.grid, row, col, symbol, board.filler)
  ELSE board.grid

setCell(board, row, col, symbol) ==
  Try(validateIndices(row, col),
      makeBoard([board EXCEPT !.grid =
        setCellWrite(JSONCopy(board.grid), row, col, symbol, board.filler)]))

\* A hasWin that looks at the row and the column only.
hasWin_rowAndCol(board, row, col, symbol) ==
  Try(validateIndices(row, col), Try(validateSymbol(symbol),
    IF every(getRow(board, row), symbol) THEN Bool(TRUE)
    ELSE IF every(getCol(board, col), symbol) THEN Bool(TRUE)
    ELSE Bool(FALSE)))

hasWin(board, row, col, symbol) ==
  Try(validateIndices(row, col), Try(validateSymbol(symbol),
    IF every(getRow(board, row), symbol) THEN Bool(TRUE)
    ELSE IF every(getCol(board, col), symbol) THEN Bool(TRUE)
    ELSE IF every(getDiag(board), symbol) THEN Bool(TRUE)
    ELSE IF every(getAntiDiag(board), symbol) THEN Bool(TRUE)
    ELSE Bool(FALSE)))

\* grid.every(r => !r.some(cell => cell === filler))
noFiller(grid, filler) ==
  \A r \in 1..Len(grid.val) :
    ~(\E c \in 1..Len(grid.val[r].val) : grid.val[r].val[c] = filler)

\* A hasTie that does not ask hasWin.
hasTie_ignoresWin(board, row, col, symbol) ==
  Try(validateIndices(row, col), Try(validateSymbol(symbol),
    Bool(noFiller(board.grid, board.filler))))

hasTie(board, row, col, symbol) ==
  Try(validateIndices(row, col), Try(validateSymbol(symbol),
    IF Truthy(hasWin(board, row, col, symbol)) THEN Bool(FALSE)
    ELSE Bool(noFiller(board.grid, board.filler))))

\* Coordinates that are those of the row whatever the line.
LineCells_row(size, row, col, index) ==
  [i \in 1..size |-> [row |-> row, col |-> Num(i - 1)]]

\* The coordinates getWinCells pushes for the line at position `index` of
\* getLines, in the order it pushes them.
LineCells(size, row, col, index) ==
  [i \in 1..size |->
     CASE index = 0 -> [row |-> row, col |-> Num(i - 1)]
       [] index = 1 -> [row |-> Num(i - 1), col |-> col]
       [] index = 2 -> [row |-> Num(i - 1), col |-> Num(i - 1)]
       [] index = 3 -> [row |-> Num(i - 1), col |-> Num(size - 1 - (i - 1))]]

\* One round of lines.forEach: what it pushes for one line.
pushLine(line, symbol, size, row, col, index) ==
  IF every(line, symbol) THEN LineCells(size, row, col, index) ELSE <<>>

getWinCells(board, row, col, symbol) ==
  Try(validateIndices(row, col), Try(validateSymbol(symbol),
    Arr(pushLine(getRow(board, row), symbol, board.size.val, row, col, 0)
        \o pushLine(getCol(board, col), symbol, board.size.val, row, col, 1)
        \o pushLine(getDiag(board), symbol, board.size.val, row, col, 2)
        \o pushLine(getAntiDiag(board), symbol, board.size.val, row, col, 3))))

(***************************************************************************)
(* models/player.js                                                        *)
(***************************************************************************)
INIT_SCORE == 0
INIT_IS_WINNER == FALSE

DefaultPlayer ==
  [id |-> Undefined, name |-> Undefined, symbol |-> Undefined,
   isCurrent |-> Undefined, isWinner |-> Bool(INIT_IS_WINNER),
   score |-> Num(INIT_SCORE)]

\* The body of makePlayer once its parameter is bound.  The player object is
\* identified with the state object it closes over.
makePlayerOf(player) ==
  Try(IF Truthy(player.id) THEN validatePlayerId(player.id) ELSE Undefined,
  Try(IF Truthy(player.name) THEN validateName(player.name) ELSE Undefined,
  Try(IF Truthy(player.symbol) THEN validateSymbol(player.symbol) ELSE Undefined,
  Try(IF player.isCurrent # Undefined
        THEN validateIsBoolean(player.isCurrent) ELSE Undefined,
  Try(validateScore(player.score),
  Try(validateIsBoolean(player.isWinner),
      player))))))

makePlayer(playerArg) == makePlayerOf(DefaultParam(playerArg, DefaultPlayer))

setId(player, newId) ==
  Try(player, Try(validatePlayerId(newId),
    makePlayer([player EXCEPT !.id = newId])))

setName(player, newName) ==
  Try(player, Try(validateName(newName),
    makePlayer([player EXCEPT !.name = Str(slice(newName.val, 12))])))

setSymbol(player, newSymbol) ==
  Try(player, Try(validateSymbol(newSymbol),
    makePlayer([player EXCEPT !.symbol = newSymbol])))

\* A setIsCurrent that leaves the flag as it is.
setIsCurrent_keeps(player) == Try(player, makePlayer(player))

setIsCurrent(player) ==
  Try(player, makePlayer([player EXCEPT !.isCurrent = Bool(TRUE)]))

\* A setIsNext that gives the turn.
setIsNext_current(player) ==
  Try(player, makePlayer([player EXCEPT !.isCurrent = Bool(TRUE)]))

setIsNext(player) ==
  Try(player, makePlayer([player EXCEPT !.isCurrent = Bool(FALSE)]))

setIsWinner(player) ==
  Try(player, makePlayer([player EXCEPT !.isWinner = Bool(TRUE)]))

getId(player) == player.id

getName(player) == player.name

getSymbol(player) == player.symbol

getIsCurrent(player) == player.isCurrent

getIsWinner(player) == player.isWinner

getScore(player) == player.score

incrementScore(player) ==
  Try(player, makePlayer([player EXCEPT !.score = Num(@.val + 1)]))

\* A resetIsWinner that leaves the flag as it is.
resetIsWinner_keeps(player) == Try(player, makePlayer(player))

resetIsWinner(player) ==
  Try(player, makePlayer([player EXCEPT !.isWinner = Bool(FALSE)]))

resetScore(player) ==
  Try(player, makePlayer([player EXCEPT !.score = Num(0)]))

(***************************************************************************)
(* utils/observer.js                                                       *)
(***************************************************************************)
\* A function value; two functions are the same when their identities are.
Fn(id) == [type |-> "function", val |-> id]

\* const observers = []
makeObserver == <<>>

\* observers.push(observer): the array after the call.
addObserver(observers, observer) == Append(observers, observer)

\* observers.filter(o => o !== observer) over the elements from `from` on
RECURSIVE filter(_, _, _)
filter(observers, observer, from) ==
  IF from > Len(observers) THEN <<>>
  ELSE (IF observers[from] # observer THEN <<observers[from]>> ELSE <<>>)
         \o filter(observers, observer, from + 1)

\* What removeObserver returns: the array filter builds.
removeObserverReturn(observers, observer) == filter(observers, observer, 1)

\* The observers array after removeObserver: filter leaves the array it is
\* called on as it is, and its result is assigned to nothing.
removeObserver(observers, observer) == observers

\* The call notifyObservers makes for one observer, if any.
notifyObserver(observer, data) ==
  IF typeof(observer) = "function"
    THEN <<[observer |-> observer, data |-> data]>>
  ELSE IF "update" \in DOMAIN observer /\ typeof(observer.update) = "function"
    THEN <<[observer |-> observer.update, data |-> data]>>
  ELSE <<>>

\* observers.forEach from the element `from` on: the calls made, in order.
RECURSIVE notifyFrom(_, _, _)
notifyFrom(observers, data, from) ==
  IF from > Len(observers) THEN <<>>
  ELSE notifyObserver(observers[from], data)
         \o notifyFrom(observers, data, from + 1)

\* A notifyObservers that walks the array from its end.
RECURSIVE notifyObservers_backwards(_, _)
notifyObservers_backwards(observers, data) ==
  IF observers = <<>> THEN <<>>
  ELSE notifyObserver(observers[Len(observers)], data)
         \o notifyObservers_backwards(SubSeq(observers, 1, Len(observers) - 1), data)

notifyObservers(observers, data) == notifyFrom(observers, data, 1)

(***************************************************************************)
(* models/tie.js                                                           *)
(***************************************************************************)
INIT_TIE == FALSE

DefaultTie == [score |-> Num(INIT_SCORE), isTie |-> Bool(INIT_TIE)]

\* The body of makeTie once its parameter is bound.  The tie object is
\* identified with the state object it closes over.
makeTieOf(tie) ==
  Try(validateScore(tie.score), Try(validateIsBoolean(tie.isTie), tie))

makeTie(tieArg) == makeTieOf(DefaultParam(tieArg, DefaultTie))

getTieScore(tie) == tie.score

getIsTie(tie) == tie.isTie

\* A setIsTie that leaves the flag as it is.
setIsTie_keeps(tie) == Try(tie, makeTie(tie))

setIsTie(tie) == Try(tie, makeTie([tie EXCEPT !.isTie = Bool(TRUE)]))

incrementTieScore(tie) ==
  Try(tie, makeTie([tie EXCEPT !.score = Num(@.val + 1)]))

resetIsTie(tie) == Try(tie, makeTie([tie EXCEPT !.isTie = Bool(FALSE)]))

(***************************************************************************)
(* models/game.js                                                          *)
(***************************************************************************)
INIT_CAN_PLAY == TRUE
INIT_WIN_CELLS == Arr(<<Null, Null, Null>>)

\* The object literal that is the default value of makeGame's third
\* parameter, once its four factory calls are evaluated, in order.
DefaultGameOf(board, player1, player2, tie) ==
  Try(board, Try(player1, Try(player2, Try(tie,
    [board |-> board, player1 |-> player1, player2 |-> player2, tie |-> tie,
     canPlay |-> Bool(INIT_CAN_PLAY), winCells |-> INIT_WIN_CELLS]))))

\* A default game in which player 2 has the first turn.
DefaultGame_player2First(namePlayer1, namePlayer2) ==
  DefaultGameOf(
    makeBoard(Undefined),
    setIsNext(setSymbol(setName(setId(makePlayer(Undefined),
      Num(1)), namePlayer1), Str("x"))),
    setIsCurrent(setSymbol(setName(setId(makePlayer(Undefined),
      Num(2)), namePlayer2), Str("o"))),
    makeTie(Undefined))

DefaultGame(namePlayer1, namePlayer2) ==
  DefaultGameOf(
    makeBoard(Undefined),
    setIsCurrent(setSymbol(setName(setId(makePlayer(Undefined),
      Num(1)), namePlayer1), Str("x"))),
    setIsNext(setSymbol(setName(setId(makePlayer(Undefined),
      Num(2)), namePlayer2), Str("o"))),
    makeTie(Undefined))

\* The body of makeGame once its three parameters are bound.  A game
\* instance is the closure: the two name parameters and the state object.
makeGameOf(namePlayer1, namePlayer2, game) ==
  Try(game,
  Try(validateObject(game.board),
  Try(validateObject(game.player1),
  Try(validateObject(game.player2),
  Try(validateObject(game.tie),
  Try(validateIsBoolean(game.canPlay),
  Try(validateWinCells(game.winCells, getSize(game.board)),
      [namePlayer1 |-> namePlayer1, namePlayer2 |-> namePlayer2,
       game |-> game])))))))

\* The third parameter's default is evaluated after the first two are bound.
makeGameNamed(namePlayer1, namePlayer2, gameArg) ==
  makeGameOf(namePlayer1, namePlayer2,
    IF gameArg = Undefined
      THEN DefaultGame(namePlayer1, namePlayer2) ELSE gameArg)

makeGame(namePlayer1Arg, namePlayer2Arg, gameArg) ==
  makeGameNamed(DefaultParam(namePlayer1Arg, Str("Player 1")),
                DefaultParam(namePlayer2Arg, Str("Player 2")), gameArg)

getBoard(self) == self.game.board

getPlayer1(self) == self.game.player1

getPlayer2(self) == self.game.player2

\* A getCurrentPlayer that always answers player 1.
getCurrentPlayer_player1(self) == self.game.player1

getCurrentPlayer(self) ==
  IF Truthy(getIsCurrent(self.game.player1))
    THEN self.game.player1 ELSE self.game.player2

getTie(self) == self.game.tie

getCanPlay(self) == self.game.canPlay

getGameWinCells(self) == self.game.winCells

\* playTurn's call of makeGame: every property of the state object is named
\* in the literal, so `...game` contributes none.
playTurnMake(self, updatedBoard, updatedPlayer1, updatedPlayer2, updatedTie, canPlay, winningCells) ==
  Try(updatedPlayer1, Try(updatedPlayer2, Try(updatedTie,
    makeGame(self.namePlayer1, self.namePlayer2,
      [board |-> updatedBoard, player1 |-> updatedPlayer1,
       player2 |-> updatedPlayer2, tie |-> updatedTie,
       canPlay |-> canPlay, winCells |-> winningCells]))))

\* A playTurn that leaves the turn where it is when the move ties the round.
playTurnUpdate_tieKeepsTurn(self, updatedBoard, isWin, isTie, updatedPlayer, winningCells) ==
  Try(updatedPlayer, Try(winningCells,
    playTurnMake(self, updatedBoard,
      IF Truthy(isTie) THEN self.game.player1
      ELSE IF getId(self.game.player1) = getId(updatedPlayer)
        THEN setIsNext(updatedPlayer) ELSE setIsCurrent(self.game.player1),
      IF Truthy(isTie) THEN self.game.player2
      ELSE IF getId(updatedPlayer) = getId(self.game.player2)
        THEN setIsNext(updatedPlayer) ELSE setIsCurrent(self.game.player2),
      IF Truthy(isTie)
        THEN incrementTieScore(setIsTie(self.game.tie)) ELSE self.game.tie,
      Bool(~(Truthy(isWin) \/ Truthy(isTie))),
      winningCells)))

\* playTurn from `const updatedPlayer1` on: updatedBoard, isWin, isTie,
\* updatedPlayer and winningCells are bound.
playTurnUpdate(self, updatedBoard, isWin, isTie, updatedPlayer, winningCells) ==
  Try(updatedPlayer, Try(winningCells,
    playTurnMake(self, updatedBoard,
      IF getId(self.game.player1) = getId(updatedPlayer)
        THEN setIsNext(updatedPlayer) ELSE setIsCurrent(self.game.player1),
      IF getId(updatedPlayer) = getId(self.game.player2)
        THEN setIsNext(updatedPlayer) ELSE setIsCurrent(self.game.player2),
      IF Truthy(isTie)
        THEN incrementTieScore(setIsTie(self.game.tie)) ELSE self.game.tie,
      Bool(~(Truthy(isWin) \/ Truthy(isTie))),
      winningCells)))

\* A playTurn that keeps the winCells of the instance when the move does not
\* win.
playTurnResolve_keepsWinCells(self, row, col, currentPlayer, symbol, updatedBoard, isWin, isTie) ==
  Try(isWin, Try(isTie,
    playTurnUpdate(self, updatedBoard, isWin, isTie,
      IF Truthy(isWin)
        THEN incrementScore(setIsWinner(currentPlayer)) ELSE currentPlayer,
      IF Truthy(isWin)
        THEN getWinCells(updatedBoard, row, col, symbol)
        ELSE self.game.winCells)))

\* playTurn from `const updatedPlayer` on: isWin and isTie are bound.
playTurnResolve(self, row, col, currentPlayer, symbol, updatedBoard, isWin, isTie) ==
  Try(isWin, Try(isTie,
    playTurnUpdate(self, updatedBoard, isWin, isTie,
      IF Truthy(isWin)
        THEN incrementScore(setIsWinner(currentPlayer)) ELSE currentPlayer,
      IF Truthy(isWin)
        THEN getWinCells(updatedBoard, row, col, symbol) ELSE INIT_WIN_CELLS)))

\* playTurn from `const isWin` on: updatedBoard is bound.
playTurnPlaced(self, row, col, currentPlayer, symbol, updatedBoard) ==
  Try(updatedBoard,
    playTurnResolve(self, row, col, currentPlayer, symbol, updatedBoard,
      hasWin(updatedBoard, row, col, symbol),
      hasTie(updatedBoard, row, col, symbol)))

\* playTurn from `const symbol` on: currentPlayer is bound.
playTurnBy(self, row, col, currentPlayer) ==
  playTurnPlaced(self, row, col, currentPlayer, getSymbol(currentPlayer),
    setCell(self.game.board, row, col, getSymbol(currentPlayer)))

\* `return makeGame(game)`: the state object is the first positional
\* argument, so it is bound to namePlayer1 and the other two parameters take
\* their defaults.
playTurnNoOp(self) == makeGame(self.game, Undefined, Undefined)

\* A playTurn that tests canPlay before it looks at the cell it read.
playTurnCell_guardFirst(self, row, col, cell) ==
  IF ~Truthy(self.game.canPlay) THEN playTurnNoOp(self)
  ELSE IF IsErr(cell) THEN cell
  ELSE IF cell # getFiller(self.game.board) THEN playTurnNoOp(self)
  ELSE playTurnBy(self, row, col, getCurrentPlayer(self))

\* playTurn from `const filler` on: cell is bound.
playTurnCell(self, row, col, cell) ==
  IF IsErr(cell) THEN cell
  ELSE IF ~Truthy(self.game.canPlay) \/ cell # getFiller(self.game.board)
    THEN playTurnNoOp(self)
  ELSE playTurnBy(self, row, col, getCurrentPlayer(self))

playTurn(self, row, col) ==
  playTurnCell(self, row, col, getCell(self.game.board, row, col))

\* startNewRound's call of makeGame: `...game` keeps every property the
\* literal does not name.
\* A startNewRound that also puts the null placeholders back in winCells.
startNewRoundUpdate_clears(self, updatedBoard, updatedPlayer1, updatedPlayer2, updatedTie) ==
  Try(updatedBoard, Try(updatedPlayer1, Try(updatedPlayer2, Try(updatedTie,
    makeGame(self.namePlayer1, self.namePlayer2,
      [self.game EXCEPT !.board = updatedBoard,
                        !.player1 = updatedPlayer1,
                        !.player2 = updatedPlayer2,
                        !.tie = updatedTie,
                        !.canPlay = Bool(INIT_CAN_PLAY),
                        !.winCells = INIT_WIN_CELLS])))))

startNewRoundUpdate(self, updatedBoard, updatedPlayer1, updatedPlayer2, updatedTie) ==
  Try(updatedBoard, Try(updatedPlayer1, Try(updatedPlayer2, Try(updatedTie,
    makeGame(self.namePlayer1, self.namePlayer2,
      [self.game EXCEPT !.board = updatedBoard,
                        !.player1 = updatedPlayer1,
                        !.player2 = updatedPlayer2,
                        !.tie = updatedTie,
                        !.canPlay = Bool(INIT_CAN_PLAY)])))))

\* A startNewRound that hands back the instance while its round is in play.
startNewRound_whenOver(self) ==
  IF Truthy(self.game.canPlay) THEN self
  ELSE startNewRoundUpdate(self,
         resetBoard(self.game.board),
         resetIsWinner(self.game.player1),
         resetIsWinner(self.game.player2),
         resetIsTie(self.game.tie))

startNewRound(self) ==
  startNewRoundUpdate(self,
    resetBoard(self.game.board),
    IF Truthy(getIsWinner(self.game.player1))
      THEN resetIsWinner(self.game.player1) ELSE self.game.player1,
    IF Truthy(getIsWinner(self.game.player2))
      THEN resetIsWinner(self.game.player2) ELSE self.game.player2,
    IF Truthy(getIsTie(self.game.tie))
      THEN resetIsTie(self.game.tie) ELSE self.game.tie)

\* A playTurn that also notifies on its no-op path, with the instance.
playTurnNotifies_onNoOp(self, observers, row, col) ==
  IF IsErr(getCell(self.game.board, row, col)) THEN <<>>
  ELSE IF ~Truthy(self.game.canPlay)
            \/ getCell(self.game.board, row, col) # getFiller(self.game.board)
    THEN notifyObservers(observers, self)
  ELSE IF IsErr(playTurn(self, row, col)) THEN <<>>
  ELSE notifyObservers(observers, playTurn(self, row, col))

\* The observer calls one playTurn makes.  gameObserver.notifyObservers is
\* the last statement before `return updatedGame`: it is not reached when
\* getCell throws, on the no-op return, or when a later statement throws.
playTurnNotifies(self, observers, row, col) ==
  IF IsErr(getCell(self.game.board, row, col)) THEN <<>>
  ELSE IF ~Truthy(self.game.canPlay)
            \/ getCell(self.game.board, row, col) # getFiller(self.game.board)
    THEN <<>>
  ELSE IF IsErr(playTurn(self, row, col)) THEN <<>>
  ELSE notifyObservers(observers, playTurn(self, row, col))

\* The observer calls one startNewRound makes.
startNewRoundNotifies(self, observers) ==
  IF IsErr(startNewRound(self)) THEN <<>>
  ELSE notifyObservers(observers, startNewRound(self))

\* The state object of the instance playTurn is called on, as it reads after
\* the call.  The call assigns to no property of it; the one array element
\* it writes is setCell's, on the path past the guard.
gameAfterPlayTurn(self, row, col) ==
  IF IsErr(getCell(self.game.board, row, col)) THEN self.game
  ELSE IF ~Truthy(self.game.canPlay)
            \/ getCell(self.game.board, row, col) # getFiller(self.game.board)
    THEN self.game
  ELSE [self.game EXCEPT !.board.grid =
          gridAfterSetCell(self.game.board, row, col,
                           getSymbol(getCurrentPlayer(self)))]

\* The state object of the instance startNewRound is called on, as it reads
\* after the call: startNewRound assigns to no property and no element, and
\* resetBoard builds its arrays anew.
gameAfterStartNewRound(self) == self.game

\* The array that is the grid of the board of the instance playTurn returns,
\* when the grid of the instance it is called on is the array gridRef:
\* updatedBoard is the board setCell made around updatedGrid.
returnedGridRef(gridRef) == updatedGridRef(gridRef)

(***************************************************************************)
(* view/configs.js and view/applier.js.  An element is named by the        *)
(* constant elements.js exports it as; a change record is the record the   *)
(* config function returns.                                                *)
(***************************************************************************)
clearConfig(element) == [element |-> element, action |-> "clear"]

displayConfig(element, display) ==
  [element |-> element,
   action |-> IF Truthy(display) THEN "display" ELSE "undisplay"]

highlightConfig(element, highlight) ==
  [element |-> element,
   action |-> IF Truthy(highlight) THEN "highlight" ELSE "unhighlight"]

infoConfig(element, value) ==
  [element |-> element, value |-> value, action |-> "updateContent"]

\* { ...cellData, action: "updateCell" }
cellConfig(cellData) == [action |-> "updateCell"] @@ cellData

\* const changes = []
makeApplier == <<>>

\* const gridData: flatMap walks the rows, map the cells of each row.
gridData(game, startNewRoundFlag) ==
  [k \in 1..(Len(getGrid(getBoard(game)).val) * Len(getGrid(getBoard(game)).val)) |->
     cellConfig(
       [filler |-> getFiller(getBoard(game)),
        content |-> At(At(getGrid(getBoard(game)),
                          (k - 1) \div Len(getGrid(getBoard(game)).val)),
                       (k - 1) % Len(getGrid(getBoard(game)).val)),
        row |-> Num((k - 1) \div Len(getGrid(getBoard(game)).val)),
        col |-> Num((k - 1) % Len(getGrid(getBoard(game)).val)),
        winCells |-> getGameWinCells(game),
        isNewRound |-> Bool(~~Truthy(startNewRoundFlag))])]

\* The change records one call of update pushes, in the order it pushes
\* them, when data comes from the middleware.
updatePushes(data) ==
  (IF Truthy(data.startGame) \/ Truthy(data.startNewRound)
        \/ Truthy(data.restartGame)
     THEN <<clearConfig("gameBoard")>> ELSE <<>>)
  \o (IF Truthy(data.startGame)
        THEN <<displayConfig("startGameContainer", Bool(FALSE)),
               displayConfig("gameContainer", Bool(TRUE))>>
        ELSE <<>>)
  \o (IF Truthy(data.startGame) \/ Truthy(data.playTurn)
           \/ Truthy(data.restartGame)
        THEN <<infoConfig("player1Name", getName(getPlayer1(data.game))),
               infoConfig("player2Name", getName(getPlayer2(data.game))),
               infoConfig("scorePlayer1", getScore(getPlayer1(data.game))),
               infoConfig("scorePlayer2", getScore(getPlayer2(data.game))),
               infoConfig("scoreTie", getTieScore(getTie(data.game)))>>
        ELSE <<>>)
  \o (IF Truthy(data.restartGame)
        THEN <<displayConfig("startGameContainer", Bool(TRUE)),
               displayConfig("gameContainer", Bool(FALSE))>>
        ELSE <<>>)
  \o (IF Truthy(getCanPlay(data.game))
        THEN <<highlightConfig("player1Name",
                 Bool(getCurrentPlayer(data.game) = getPlayer1(data.game))),
               highlightConfig("player2Name",
                 Bool(getCurrentPlayer(data.game) # getPlayer1(data.game)))>>
        ELSE <<>>)
  \o gridData(data.game, data.startNewRound)

\* The array `changes` of the applier after one call of update: the call
\* pushes onto the array of the closure and assigns to it nowhere.
update(changes, data) ==
  IF ~Truthy(data.fromMiddleware) THEN changes
  ELSE changes \o updatePushes(data)

\* The change records one call of update hands to applyChange, in order:
\* changes.forEach(applyChange) walks the whole array.
updateApplies(changes, data) ==
  IF ~Truthy(data.fromMiddleware) THEN <<>>
  ELSE update(changes, data)

(***************************************************************************)
(* The state machine: a caller holds one game instance and replaces it by  *)
(* the instance each call returns.  A call that throws returns nothing:    *)
(* the caller is left with the instance it had.  A caller of the Board     *)
(* module does the same with one board.                                    *)
(***************************************************************************)
VARIABLES
  namePlayer1,  \* closure of the instance held: makeGame's first parameter
  namePlayer2,  \* closure of the instance held: makeGame's second parameter
  game,         \* closure of the instance held: the state object
  madeBy,       \* the function that returned the instance held
  board,        \* closure of the board held: makeBoard's state object
  observers,    \* closure of the instance held: gameObserver's array
  notified,     \* the calls of observers made by the last transition
  subscribed,   \* callbacks the caller added, to this instance or to one
                \* it descends from, and has not removed since
  removed,      \* callbacks the caller added to the instance held, then
                \* removed from it, and has not added again
  player,       \* closure of the player held: makePlayer's state object
  changes,      \* closure of the applier: the array `changes`
  applied       \* the change records the last update handed to applyChange

vars ==
  <<namePlayer1, namePlayer2, game, madeBy, board,
    observers, notified, subscribed, removed, player, changes, applied>>

\* The instance held.
Self == [namePlayer1 |-> namePlayer1, namePlayer2 |-> namePlayer2, game |-> game]

\* The indexes of the board.
BoardIndexes == {Num(0), Num(1), Num(2)}

\* Row and column arguments: every board index, and an integer out of range
\* on each side.
IndexInputs == BoardIndexes \cup {Num(-1), Num(3)}

\* Name arguments of makeGame: none given, and a name of 13 characters.
NameInputs == {Undefined, Str("Bartholomew X")}

\* Rounds ended so far.
RoundsEnded(g) ==
  getScore(g.player1).val + getScore(g.player2).val + getTieScore(g.tie).val

\* The caller takes the instance returned, or keeps its own on a throw.  The
\* instance returned has the observer makeGame made for it.
Returns(result, function, calls) ==
  IF IsErr(result)
    THEN UNCHANGED vars
    ELSE /\ namePlayer1' = result.namePlayer1
         /\ namePlayer2' = result.namePlayer2
         /\ game' = result.game
         /\ madeBy' = function
         /\ observers' = makeObserver
         /\ notified' = calls
         /\ removed' = {}
         /\ UNCHANGED <<board, subscribed, player, changes, applied>>

\* A transition notifies the observers of the instance it is called on with
\* the instance it made, and then returns that instance.
Transition(result, function) ==
  Returns(result, function, notifyObservers(observers, result))

Init ==
  /\ namePlayer1 = makeGame(Undefined, Undefined, Undefined).namePlayer1
  /\ namePlayer2 = makeGame(Undefined, Undefined, Undefined).namePlayer2
  /\ game = makeGame(Undefined, Undefined, Undefined).game
  /\ madeBy = "makeGame"
  /\ board = makeBoard(Undefined)
  /\ observers = makeObserver
  /\ notified = <<>>
  /\ subscribed = {}
  /\ removed = {}
  /\ player = makePlayer(Undefined)
  /\ changes = makeApplier
  /\ applied = <<>>

\* The move passes playTurn's index check and its no-op test.
Playable(g, row, col) ==
  /\ ~IsErr(validateIndices(row, col))
  /\ Truthy(g.canPlay)
  /\ getCell(g.board, row, col) = getFiller(g.board)

PlayTurn(row, col) ==
  /\ Playable(game, row, col) => RoundsEnded(game) < MaxRounds
  /\ Transition(playTurn(Self, row, col), "playTurn")

StartNewRound ==
  \E result \in {startNewRound(Self)} : Transition(result, "startNewRound")

MakeGame(name1, name2) ==
  /\ {name1, name2} \subseteq NameInputs
  /\ Returns(makeGame(name1, name2, Undefined), "makeGame", <<>>)

Next ==
  \/ \E row \in IndexInputs, col \in IndexInputs : PlayTurn(row, col)
  \/ StartNewRound
  \/ \E name1 \in NameInputs, name2 \in NameInputs : MakeGame(name1, name2)

Spec == Init /\ [][Next]_vars

(***************************************************************************)
(* The Board module on its own: a caller fills a board cell by cell, with  *)
(* either symbol in any order, so that every content of the grid occurs.   *)
(***************************************************************************)
\* Symbol arguments: the two player symbols.
SymbolInputs == {Str("x"), Str("o")}

SetCell(row, col, symbol) ==
  /\ ~IsErr(setCell(board, row, col, symbol))
  /\ board' = setCell(board, row, col, symbol)
  /\ UNCHANGED <<namePlayer1, namePlayer2, game, madeBy>>
  /\ UNCHANGED <<observers, notified, subscribed, removed, player>>
  /\ UNCHANGED <<changes, applied>>

ResetBoard ==
  /\ board' = resetBoard(board)
  /\ UNCHANGED <<namePlayer1, namePlayer2, game, madeBy>>
  /\ UNCHANGED <<observers, notified, subscribed, removed, player>>
  /\ UNCHANGED <<changes, applied>>

BoardNext ==
  \/ \E row \in IndexInputs, col \in IndexInputs, symbol \in SymbolInputs :
       SetCell(row, col, symbol)
  \/ ResetBoard

BoardSpec == Init /\ [][BoardNext]_vars

(***************************************************************************)
(* A caller that observes the game: it adds and removes callbacks on the   *)
(* instance it holds, plays in the top row and starts new rounds.          *)
(***************************************************************************)
\* At most MaxObservers callbacks are added to one instance.
MaxObservers == 2

\* Observer arguments: two functions.
ObserverInputs == {Fn("f"), Fn("g")}

\* Cell arguments of the observed game: the top row.
ObservedCells == {<<Num(0), Num(0)>>, <<Num(0), Num(1)>>, <<Num(0), Num(2)>>}

AddObserver(observer) ==
  /\ Len(observers) < MaxObservers
  /\ observers' = addObserver(observers, observer)
  /\ subscribed' = subscribed \cup {observer}
  /\ removed' = removed \ {observer}
  /\ UNCHANGED <<namePlayer1, namePlayer2, game, madeBy, board, notified>>
  /\ UNCHANGED <<player, changes, applied>>

RemoveObserver(observer) ==
  /\ observers' = removeObserver(observers, observer)
  /\ subscribed' = subscribed \ {observer}
  /\ removed' = IF \E i \in 1..Len(observers) : observers[i] = observer
                  THEN removed \cup {observer} ELSE removed
  /\ UNCHANGED <<namePlayer1, namePlayer2, game, madeBy, board, notified>>
  /\ UNCHANGED <<player, changes, applied>>

ObservedNext ==
  \/ \E observer \in ObserverInputs : AddObserver(observer)
  \/ \E observer \in ObserverInputs : RemoveObserver(observer)
  \/ \E cell \in ObservedCells : PlayTurn(cell[1], cell[2])
  \/ StartNewRound

ObservedSpec == Init /\ [][ObservedNext]_vars

(***************************************************************************)
(* The player alone: a caller holds one player and replaces it by the      *)
(* player each call returns.                                               *)
(***************************************************************************)
\* incrementScore is explored while the score is below MaxScore.
MaxScore == 2

\* Id values: none, a positive and a negative integer, and false.
IdInputs == {Undefined, Num(1), Num(-1), Bool(FALSE)}

\* Name values: none, the empty string, names of 3, 12 and 13 characters,
\* and a number.
PlayerNameInputs ==
  {Undefined, Str(""), Str("Ann"), Str("Bartholomews"), Str("Bartholomew X"),
   Num(0)}

\* Symbol values: none, and strings of 0, 1 and 2 characters.
PlayerSymbolInputs == {Undefined, Str(""), Str("x"), Str("xo")}

\* Flag values: none, true, and null.
FlagInputs == {Undefined, Bool(TRUE), Null}

\* Score values: zero and a negative integer.
ScoreInputs == {Num(0), Num(-1)}

\* The objects makePlayer is called with.
PlayerInputs ==
  [id : IdInputs, name : PlayerNameInputs, symbol : PlayerSymbolInputs,
   isCurrent : FlagInputs, isWinner : FlagInputs, score : ScoreInputs]

\* The caller takes the player returned, or keeps its own on a throw.
PlayerReturns(result) ==
  IF IsErr(result)
    THEN UNCHANGED vars
    ELSE /\ player' = result
         /\ UNCHANGED <<namePlayer1, namePlayer2, game, madeBy, board>>
         /\ UNCHANGED <<observers, notified, subscribed, removed>>
         /\ UNCHANGED <<changes, applied>>

MakePlayer(candidate) ==
  /\ candidate \in PlayerInputs
  /\ PlayerReturns(makePlayer(candidate))

SetId(newId) ==
  /\ newId \in IdInputs
  /\ PlayerReturns(setId(player, newId))

SetName(newName) ==
  /\ newName \in PlayerNameInputs
  /\ PlayerReturns(setName(player, newName))

SetSymbol(newSymbol) ==
  /\ newSymbol \in PlayerSymbolInputs
  /\ PlayerReturns(setSymbol(player, newSymbol))

SetIsCurrent == \E result \in {setIsCurrent(player)} : PlayerReturns(result)

SetIsNext == \E result \in {setIsNext(player)} : PlayerReturns(result)

SetIsWinner == \E result \in {setIsWinner(player)} : PlayerReturns(result)

IncrementScore ==
  /\ getScore(player).val < MaxScore
  /\ PlayerReturns(incrementScore(player))

ResetIsWinner == \E result \in {resetIsWinner(player)} : PlayerReturns(result)

ResetScore == \E result \in {resetScore(player)} : PlayerReturns(result)

PlayerNext ==
  \/ \E candidate \in PlayerInputs : MakePlayer(candidate)
  \/ \E newId \in IdInputs : SetId(newId)
  \/ \E newName \in PlayerNameInputs : SetName(newName)
  \/ \E newSymbol \in PlayerSymbolInputs : SetSymbol(newSymbol)
  \/ SetIsCurrent
  \/ SetIsNext
  \/ SetIsWinner
  \/ IncrementScore
  \/ ResetIsWinner
  \/ ResetScore

PlayerSpec == Init /\ [][PlayerNext]_vars

(***************************************************************************)
(* The view applier alone: one applier, whose update is called with the    *)
(* data of one event after the other.                                      *)
(***************************************************************************)
\* update is explored while fewer than MaxUpdates calls have pushed records.
MaxUpdates == 2

\* The games the data carry: a new game, and the game after one move.
GameInputs ==
  {makeGame(Undefined, Undefined, Undefined),
   playTurn(makeGame(Undefined, Undefined, Undefined), Num(0), Num(0))}

\* The data of one event: the flag of the event alone is set.
Data(fromMiddleware, event, g) ==
  [fromMiddleware |-> fromMiddleware,
   startGame |-> IF event = "startGame" THEN Bool(TRUE) ELSE Undefined,
   startNewRound |-> IF event = "startNewRound" THEN Bool(TRUE) ELSE Undefined,
   restartGame |-> IF event = "restartGame" THEN Bool(TRUE) ELSE Undefined,
   playTurn |-> IF event = "playTurn" THEN Bool(TRUE) ELSE Undefined,
   game |-> g]

\* The data update is called with, from the middleware or not.
DataInputs ==
  {Data(fromMiddleware, event, g) :
     fromMiddleware \in {Bool(TRUE), Undefined},
     event \in {"startGame", "startNewRound", "restartGame", "playTurn"},
     g \in GameInputs}

\* The calls of update that pushed records: each pushed one record a cell.
Updates(array) ==
  Cardinality({i \in 1..Len(array) : array[i].action = "updateCell"})
    \div (SIZE * SIZE)

Update(data) ==
  /\ Truthy(data.fromMiddleware) => Updates(changes) < MaxUpdates
  /\ changes' = update(changes, data)
  /\ applied' = updateApplies(changes, data)
  /\ UNCHANGED <<namePlayer1, namePlayer2, game, madeBy, board>>
  /\ UNCHANGED <<observers, notified, subscribed, removed, player>>

ApplierNext == \E data \in DataInputs : Update(data)

ApplierSpec == Init /\ [][ApplierNext]_vars

(***************************************************************************)
(* Vocabulary of the properties.                                           *)
(***************************************************************************)
\* The symbol in a cell of a state object's board.
CellAt(g, row, col) == At(At(g.board.grid, row.val), col.val)

\* The round of g ended with a winner.
IsWon(g) == Truthy(g.player1.isWinner) \/ Truthy(g.player2.isWinner)

\* The property name, in a state object, of the player whose turn it is, and
\* of the other player.
Mover(g) == IF Truthy(g.player1.isCurrent) THEN "player1" ELSE "player2"
Waiter(g) == IF Truthy(g.player1.isCurrent) THEN "player2" ELSE "player1"

\* The eight lines of the board, each in traversal order.
RowLine(r) == [i \in 1..3 |-> [row |-> Num(r), col |-> Num(i - 1)]]
ColLine(c) == [i \in 1..3 |-> [row |-> Num(i - 1), col |-> Num(c)]]
DiagLine == [i \in 1..3 |-> [row |-> Num(i - 1), col |-> Num(i - 1)]]
AntiDiagLine == [i \in 1..3 |-> [row |-> Num(i - 1), col |-> Num(3 - i)]]
AllLines ==
  {RowLine(r) : r \in 0..2} \cup {ColLine(c) : c \in 0..2}
    \cup {DiagLine, AntiDiagLine}

\* The lines that pass through a cell.
LinesThrough(row, col) ==
  {line \in AllLines : \E i \in 1..3 : line[i] = [row |-> row, col |-> col]}

\* Every cell of the line holds the symbol on g's board.
LineHolds(g, line, symbol) ==
  \A i \in 1..3 : CellAt(g, line[i].row, line[i].col) = symbol

\* Placing the symbol at the (empty) cell completes the line on g's board.
Completes(g, line, row, col, symbol) ==
  \A i \in 1..3 :
    line[i] = [row |-> row, col |-> col]
      \/ CellAt(g, line[i].row, line[i].col) = symbol

\* The move of the player whose turn it is completes some line.
MoveWins(g, row, col) ==
  \E line \in LinesThrough(row, col) :
    Completes(g, line, row, col, g[Mover(g)].symbol)

\* The move fills the last empty cell.
MoveFills(g, row, col) ==
  \A r \in BoardIndexes, c \in BoardIndexes :
    (r = row /\ c = col) \/ CellAt(g, r, c) # g.board.filler

\* The move ends the round in a tie.
MoveTies(g, row, col) == MoveFills(g, row, col) /\ ~MoveWins(g, row, col)

\* The boards of before and after differ at most in the one cell.
SameBoardBut(before, after, row, col) ==
  \A r \in BoardIndexes, c \in BoardIndexes :
    (r = row /\ c = col) \/ CellAt(after, r, c) = CellAt(before, r, c)

(***************************************************************************)
(* C1  Idempotence of playTurn: in every reachable state, playTurn on an   *)
(* in-range cell that already holds a player symbol returns a game state   *)
(* equal to the current one (same board, players, tie, canPlay, winCells). *)
(***************************************************************************)
C1_OccupiedCellIsNoOp ==
  \A row \in BoardIndexes, col \in BoardIndexes :
    CellAt(game, row, col) # getFiller(game.board) =>
      /\ ~IsErr(playTurn(Self, row, col))
      /\ playTurn(Self, row, col).game = game

(***************************************************************************)
(* C2  Playing after the round ended is not an error: in every state with  *)
(* canPlay = false, playTurn with in-range coordinates raises no error and *)
(* leaves board, scores, flags and winCells as they were.                  *)
(***************************************************************************)
C2_RoundOverIsIgnored ==
  ~Truthy(game.canPlay) =>
    \A row \in BoardIndexes, col \in BoardIndexes :
      /\ ~IsErr(playTurn(Self, row, col))
      /\ playTurn(Self, row, col).game.board = game.board
      /\ playTurn(Self, row, col).game.player1 = game.player1
      /\ playTurn(Self, row, col).game.player2 = game.player2
      /\ playTurn(Self, row, col).game.tie = game.tie
      /\ playTurn(Self, row, col).game.canPlay = game.canPlay
      /\ playTurn(Self, row, col).game.winCells = game.winCells

(***************************************************************************)
(* C3  For every Playable state and every in-range empty cell, playTurn    *)
(* places the symbol of the player returned by getCurrentPlayer at exactly *)
(* that cell and, when the move ends the round by neither win nor tie, the *)
(* player who moved becomes not-current and the other becomes current.     *)
(***************************************************************************)
C3_Placed(result, row, col) ==
  /\ ~IsErr(result)
  /\ CellAt(result.game, row, col) = getSymbol(getCurrentPlayer(Self))
  /\ SameBoardBut(game, result.game, row, col)
  /\ (~MoveWins(game, row, col) /\ ~MoveTies(game, row, col)) =>
       /\ result.game[Mover(game)].isCurrent = Bool(FALSE)
       /\ result.game[Waiter(game)].isCurrent = Bool(TRUE)

C3_PlacesSymbolAndToggles ==
  \A row \in BoardIndexes, col \in BoardIndexes :
    Playable(game, row, col) => C3_Placed(playTurn(Self, row, col), row, col)

(***************************************************************************)
(* C4  When an accepted playTurn completes a line for the mover, the       *)
(* resulting state has that player's isWinner = true and score one higher, *)
(* canPlay = false and winCells set to the coordinates of the winning      *)
(* line; when it completes no line, winCells is the null-placeholder       *)
(* sequence and no player's isWinner or score changes.                     *)
(***************************************************************************)
C4_Resolved(result, row, col) ==
  /\ ~IsErr(result)
  /\ IF MoveWins(game, row, col)
       THEN /\ result.game[Mover(game)].isWinner = Bool(TRUE)
            /\ result.game[Mover(game)].score.val = game[Mover(game)].score.val + 1
            /\ result.game.canPlay = Bool(FALSE)
            /\ result.game.winCells.val \in LinesThrough(row, col)
            /\ LineHolds(result.game, result.game.winCells.val,
                         game[Mover(game)].symbol)
       ELSE /\ result.game.winCells = INIT_WIN_CELLS
            /\ result.game.player1.isWinner = game.player1.isWinner
            /\ result.game.player2.isWinner = game.player2.isWinner
            /\ result.game.player1.score = game.player1.score
            /\ result.game.player2.score = game.player2.score

C4_WinMarksWinner ==
  \A row \in BoardIndexes, col \in BoardIndexes :
    Playable(game, row, col) => C4_Resolved(playTurn(Self, row, col), row, col)

(***************************************************************************)
(* C5  After every accepted playTurn, canPlay is false if and only if the  *)
(* move produced a win or a tie; if it produced a tie the tie's score is   *)
(* one higher and tie.isTie is true, and otherwise the tie is unchanged.   *)
(***************************************************************************)
C5_Ended(result, row, col) ==
  /\ ~IsErr(result)
  /\ (result.game.canPlay = Bool(FALSE))
       <=> (MoveWins(game, row, col) \/ MoveTies(game, row, col))
  /\ IF MoveTies(game, row, col)
       THEN /\ result.game.tie.score.val = game.tie.score.val + 1
            /\ result.game.tie.isTie = Bool(TRUE)
       ELSE result.game.tie = game.tie

C5_CanPlayFalseIffEnded ==
  \A row \in BoardIndexes, col \in BoardIndexes :
    Playable(game, row, col) => C5_Ended(playTurn(Self, row, col), row, col)

(***************************************************************************)
(* C6  In every reachable state at most one of these holds: some player    *)
(* has isWinner = true, tie.isTie = true, canPlay = true; and whenever     *)
(* canPlay = true exactly one of the two players has isCurrent = true.     *)
(***************************************************************************)
C6_ExclusiveRoundFlags ==
  /\ ~(IsWon(game) /\ Truthy(game.tie.isTie))
  /\ ~(IsWon(game) /\ Truthy(game.canPlay))
  /\ ~(Truthy(game.tie.isTie) /\ Truthy(game.canPlay))
  /\ Truthy(game.canPlay) =>
       Truthy(game.player1.isCurrent) # Truthy(game.player2.isCurrent)

\* A round has been won, a second one started and a move made in it.
C6_Witness ==
  /\ RoundsEnded(game) = 1
  /\ Truthy(game.canPlay)
  /\ madeBy = "playTurn"
  /\ ~IsWon(game)
  /\ getScore(game.player1).val + getScore(game.player2).val = 1

(***************************************************************************)
(* C7  startNewRound() called in a Won state yields a state in which both  *)
(* players' scores and the tie's score are unchanged, no player has        *)
(* isWinner = true and canPlay is true; winCells is not cleared: it still  *)
(* holds the coordinates of the line that won the round.                   *)
(***************************************************************************)
C7_Restarted(result) ==
  /\ ~IsErr(result)
  /\ result.game.player1.score = game.player1.score
  /\ result.game.player2.score = game.player2.score
  /\ result.game.tie.score = game.tie.score
  /\ ~IsWon(result.game)
  /\ result.game.canPlay = Bool(TRUE)

C8_SamePlayer(before, after) ==
  /\ after.id = before.id
  /\ after.name = before.name
  /\ after.symbol = before.symbol
  /\ after.score = before.score
  /\ after.isCurrent = before.isCurrent

C8_Fresh(result) ==
  /\ ~IsErr(result)
  /\ \A row \in BoardIndexes, col \in BoardIndexes :
       CellAt(result.game, row, col) = FILLER
  /\ result.game.tie.isTie = Bool(FALSE)
  /\ result.game.canPlay = Bool(TRUE)
  /\ C8_SamePlayer(game.player1, result.game.player1)
  /\ C8_SamePlayer(game.player2, result.game.player2)
  /\ result.game.tie.score = game.tie.score

C8_NewRoundResetsBoard == C8_Fresh(startNewRound(Self))

\* A Tied state, with a full board, from which the new round starts fresh.
C8_Witness ==
  /\ Truthy(game.tie.isTie)
  /\ \A row \in BoardIndexes, col \in BoardIndexes :
       CellAt(game, row, col) # FILLER
  /\ C8_Fresh(startNewRound(Self))

(***************************************************************************)
(* C9  A game created by makeGame with no prior state has canPlay = true,  *)
(* a board of filler cells only, player 1 (id 1, symbol "x") current and   *)
(* player 2 (id 2, symbol "o") not, no winner, tie.isTie = false, all      *)
(* three scores 0, and getCurrentPlayer() returns the player with id 1.    *)
(***************************************************************************)
C9_NewGame(g) ==
  /\ g.canPlay = Bool(TRUE)
  /\ \A row \in BoardIndexes, col \in BoardIndexes : CellAt(g, row, col) = FILLER
  /\ g.player1.id = Num(1) /\ g.player1.symbol = Str("x")
  /\ g.player1.isCurrent = Bool(TRUE)
  /\ g.player2.id = Num(2) /\ g.player2.symbol = Str("o")
  /\ g.player2.isCurrent = Bool(FALSE)
  /\ ~IsWon(g)
  /\ g.tie.isTie = Bool(FALSE)
  /\ g.player1.score = Num(0) /\ g.player2.score = Num(0)
  /\ g.tie.score = Num(0)

C9_NewGameIsFresh ==
  madeBy = "makeGame" =>
    /\ C9_NewGame(game)
    /\ getId(getCurrentPlayer(Self)) = Num(1)

\* The game as makeGame() returns it, player 1 to move on an empty board.
C9_Witness ==
  /\ madeBy = "makeGame"
  /\ game = makeGame(Undefined, Undefined, Undefined).game
  /\ getSymbol(getCurrentPlayer(Self)) = Str("x")

(***************************************************************************)
(* C10 In every state, playTurn with a row or a column outside the board   *)
(* fails with the index-validation error: the coordinate is neither        *)
(* clamped nor wrapped, and no new state is produced.                      *)
(***************************************************************************)
C10_OutOfRangeThrows ==
  \A row \in IndexInputs, col \in IndexInputs :
    (row \notin BoardIndexes \/ col \notin BoardIndexes) =>
      playTurn(Self, row, col) =
        Err("Index must be a positive integer within the board size.")

\* A board with a symbol in its last row and column, where a wrapped -1 or
\* 3 would land, and the call still fails on the index.
C10_Witness ==
  /\ CellAt(game, Num(2), Num(0)) # FILLER
  /\ CellAt(game, Num(0), Num(0)) # FILLER
  /\ IsErr(playTurn(Self, Num(-1), Num(0)))
  /\ IsErr(playTurn(Self, Num(0), Num(3)))

(***************************************************************************)
(* C14 When a single accepted playTurn completes two lines at once, the    *)
(* move is resolved as a win whose winCells holds the cells of every       *)
(* matching line, appended in row, column, diagonal, anti-diagonal order   *)
(* without deduplication: a sequence longer than 3.                        *)
(***************************************************************************)
\* The cells of the line if the move completes it, and none otherwise.
C14_CellsIfCompleted(g, line, row, col) ==
  IF line \in LinesThrough(row, col)
       /\ Completes(g, line, row, col, g[Mover(g)].symbol)
    THEN line ELSE <<>>

\* The cells of every line the move completes: row, column, diagonal,
\* anti-diagonal.
C14_CompletedCells(g, row, col) ==
  C14_CellsIfCompleted(g, RowLine(row.val), row, col)
    \o C14_CellsIfCompleted(g, ColLine(col.val), row, col)
    \o C14_CellsIfCompleted(g, DiagLine, row, col)
    \o C14_CellsIfCompleted(g, AntiDiagLine, row, col)

\* The move completes more than one line.
C14_DoubleLine(g, row, col) == Len(C14_CompletedCells(g, row, col)) > 3

C14_Resolved(result, row, col) ==
  /\ ~IsErr(result)
  /\ result.game[Mover(game)].isWinner = Bool(TRUE)
  /\ result.game.canPlay = Bool(FALSE)
  /\ result.game.winCells = Arr(C14_CompletedCells(game, row, col))

C14_DoubleLineWinKeepsEveryLine ==
  \A row \in BoardIndexes, col \in BoardIndexes :
    (Playable(game, row, col) /\ C14_DoubleLine(game, row, col)) =>
      C14_Resolved(playTurn(Self, row, col), row, col)

(***************************************************************************)
(* Vocabulary of the Board properties.                                     *)
(***************************************************************************)
\* The board held, seen as the board of a state object.
OnBoard == [board |-> board]

\* The other player symbol.
OtherSymbol(symbol) == IF symbol = Str("x") THEN Str("o") ELSE Str("x")

\* The lines through the cell that the symbol fills on the board held.
FilledThrough(row, col, symbol) ==
  {line \in LinesThrough(row, col) : LineHolds(OnBoard, line, symbol)}

\* No cell of the board held is empty.
BoardFull ==
  \A row \in BoardIndexes, col \in BoardIndexes :
    CellAt(OnBoard, row, col) # FILLER

\* No line of the board held is filled with one player symbol.
NoLineFilled ==
  \A line \in AllLines, symbol \in SymbolInputs :
    ~LineHolds(OnBoard, line, symbol)

(***************************************************************************)
(* C15 For each of the 8 lines and each symbol s, on a board where that    *)
(* line is filled with s, hasWin(row, col, s) is true for every (row, col) *)
(* on the line and hasWin(row, col, t) is false for the other symbol t.    *)
(***************************************************************************)
C15_FilledLineWins ==
  \A line \in AllLines, symbol \in SymbolInputs :
    LineHolds(OnBoard, line, symbol) =>
      \A i \in 1..3 :
        /\ hasWin(board, line[i].row, line[i].col, symbol) = Bool(TRUE)
        /\ hasWin(board, line[i].row, line[i].col, OtherSymbol(symbol))
             = Bool(FALSE)

\* The right column is filled with "o" and the top row, but for its last
\* cell, with "x": hasWin tells the symbols apart at the top right corner.
C15_Witness ==
  /\ LineHolds(OnBoard, ColLine(2), Str("o"))
  /\ CellAt(OnBoard, Num(0), Num(0)) = Str("x")
  /\ CellAt(OnBoard, Num(0), Num(1)) = Str("x")
  /\ hasWin(board, Num(0), Num(2), Str("o")) = Bool(TRUE)
  /\ hasWin(board, Num(0), Num(2), Str("x")) = Bool(FALSE)

(***************************************************************************)
(* C16 For every board content and every in-range (row, col), hasWin(row,  *)
(* col, symbol) is true if and only if some line that passes through       *)
(* (row, col) is fully populated with symbol; a complete line that does    *)
(* not pass through (row, col) does not make it true.                      *)
(***************************************************************************)
C16_OnlyLinesThroughCell ==
  \A row \in BoardIndexes, col \in BoardIndexes, symbol \in SymbolInputs :
    hasWin(board, row, col, symbol)
      = Bool(FilledThrough(row, col, symbol) # {})

(***************************************************************************)
(* C17 For every board content and in-range (row, col, symbol), hasTie is  *)
(* false whenever hasWin is true, and otherwise is true exactly when no    *)
(* cell of the board equals the filler; so on a full board with no line of *)
(* 3 matching symbols hasTie is true and hasWin is false.                  *)
(***************************************************************************)
C17_TieOf(row, col, symbol) ==
  /\ hasWin(board, row, col, symbol) = Bool(TRUE) =>
       hasTie(board, row, col, symbol) = Bool(FALSE)
  /\ hasWin(board, row, col, symbol) # Bool(TRUE) =>
       hasTie(board, row, col, symbol) = Bool(BoardFull)
  /\ (BoardFull /\ NoLineFilled) =>
       /\ hasTie(board, row, col, symbol) = Bool(TRUE)
       /\ hasWin(board, row, col, symbol) = Bool(FALSE)

C17_TieIsFullBoardWithoutWin ==
  \A row \in BoardIndexes, col \in BoardIndexes, symbol \in SymbolInputs :
    C17_TieOf(row, col, symbol)

\* A full board on which a line is filled: hasTie is false for the winning
\* move and true for a move of the other symbol.
C17_Witness ==
  /\ BoardFull
  /\ LineHolds(OnBoard, RowLine(0), Str("x"))
  /\ hasTie(board, Num(0), Num(0), Str("x")) = Bool(FALSE)
  /\ hasTie(board, Num(0), Num(0), Str("o")) = Bool(TRUE)

(***************************************************************************)
(* C18 When exactly one line through (row, col) is fully populated with    *)
(* symbol, getWinCells(row, col, symbol) returns exactly the 3 coordinates *)
(* of that line in line-traversal order, independent of which cell of the  *)
(* line is passed as (row, col).                                           *)
(***************************************************************************)
C18_WinCellsAreTheLine ==
  \A row \in BoardIndexes, col \in BoardIndexes, symbol \in SymbolInputs :
    \A line \in LinesThrough(row, col) :
      FilledThrough(row, col, symbol) = {line} =>
        getWinCells(board, row, col, symbol) = Arr(line)

(***************************************************************************)
(* C19 Board.setCell(row, col, symbol) never overwrites a played cell: if  *)
(* the target cell holds a non-filler symbol the returned board has        *)
(* content equal to the original; if it holds the filler the returned      *)
(* board differs from the original in exactly that one cell, which holds   *)
(* symbol; in both cases the original board's grid is unchanged.           *)
(***************************************************************************)
C19_Set(result, row, col, symbol) ==
  /\ ~IsErr(result)
  /\ result.size = board.size
  /\ result.filler = board.filler
  /\ CellAt(OnBoard, row, col) # getFiller(board) => result.grid = board.grid
  /\ CellAt(OnBoard, row, col) = getFiller(board) =>
       /\ CellAt([board |-> result], row, col) = symbol
       /\ SameBoardBut(OnBoard, [board |-> result], row, col)
  /\ gridAfterSetCell(board, row, col, symbol) = board.grid

C19_SetCellNeverOverwrites ==
  \A row \in BoardIndexes, col \in BoardIndexes, symbol \in SymbolInputs :
    C19_Set(setCell(board, row, col, symbol), row, col, symbol)

\* A board with a played centre and an empty corner: setCell with the other
\* symbol leaves the centre and fills the corner.
C19_Witness ==
  /\ CellAt(OnBoard, Num(1), Num(1)) = Str("x")
  /\ CellAt(OnBoard, Num(0), Num(0)) = FILLER
  /\ setCell(board, Num(1), Num(1), Str("o")).grid = board.grid
  /\ setCell(board, Num(0), Num(0), Str("o")).grid # board.grid

CallsFor(result) == notifyObservers(observers, result)

\* The transition of the instance held that produces `result` calls the
\* observer with it.
Invoked(observer, result) ==
  \E i \in 1..Len(CallsFor(result)) :
    CallsFor(result)[i] = [observer |-> observer, data |-> result]

\* The transition of the instance held that produces `result` calls the
\* observer, with whatever argument.
InvokedAtAll(observer, result) ==
  \E i \in 1..Len(CallsFor(result)) : CallsFor(result)[i].observer = observer

\* The instances the transitions of the instance held produce.
Produced ==
  {startNewRound(Self)}
    \cup {playTurn(Self, cell[1], cell[2]) :
            cell \in {c \in ObservedCells : Playable(game, c[1], c[2])}}

\* The callbacks in the array of the instance held.
Added == {observers[i] : i \in 1..Len(observers)}

(***************************************************************************)
(* C11 Once a callback is registered with addObserver and not removed, it  *)
(* is invoked with the new Game state on every subsequent transition of    *)
(* the game (every accepted playTurn and every startNewRound), including   *)
(* transitions performed on the instances returned by earlier transitions. *)
(***************************************************************************)
C11_SubscriptionFollowsTheGame ==
  \A observer \in subscribed, result \in Produced :
    ~IsErr(result) => Invoked(observer, result)

(***************************************************************************)
(* C12 After removeObserver(fn) is called on a game instance with a        *)
(* callback previously registered by addObserver(fn), fn is not invoked by *)
(* any later transition of that instance, while every other registered     *)
(* callback is still invoked.                                              *)
(***************************************************************************)
C12_RemovedIsNotInvoked ==
  \A result \in Produced :
    ~IsErr(result) =>
      /\ \A observer \in removed : ~InvokedAtAll(observer, result)
      /\ \A observer \in Added \ removed : Invoked(observer, result)

(***************************************************************************)
(* C13 When a playTurn or startNewRound on a game instance produces a new  *)
(* Game, every observer added to that instance is invoked once for each    *)
(* time it was added, in subscription order, with that same new instance   *)
(* as argument, and all invocations complete before the transition returns *)
(* that instance.                                                          *)
(***************************************************************************)
C13_OnePerSubscription(result) ==
  /\ Len(CallsFor(result)) = Len(observers)
  /\ \A i \in 1..Len(observers) :
       CallsFor(result)[i] = [observer |-> observers[i], data |-> result]

C13_NotifiedInSubscriptionOrder ==
  /\ \A result \in Produced : ~IsErr(result) => C13_OnePerSubscription(result)
  /\ \A i \in 1..Len(notified) : notified[i].data = Self

\* C13 as the specification states it: every observer is invoked exactly
\* once.
C13_ExactlyOnce(result) ==
  /\ \A observer \in Added :
       Cardinality({i \in 1..Len(CallsFor(result)) :
                      CallsFor(result)[i].observer = observer}) = 1
  /\ \A i \in 1..Len(CallsFor(result)) : CallsFor(result)[i].data = result
  /\ \A i \in 1..Len(CallsFor(result)), j \in 1..Len(CallsFor(result)) :
       i < j =>
         \E k \in 1..Len(observers), l \in 1..Len(observers) :
           /\ k < l
           /\ observers[k] = CallsFor(result)[i].observer
           /\ observers[l] = CallsFor(result)[j].observer

C13_NotifiedExactlyOnce ==
  \A result \in Produced : ~IsErr(result) => C13_ExactlyOnce(result)

\* The instance held was returned by a playTurn that called g and then f,
\* the order they were added in, with the instance itself.
C13_Witness ==
  /\ madeBy = "playTurn"
  /\ Len(notified) = 2
  /\ notified[1] = [observer |-> Fn("g"), data |-> Self]
  /\ notified[2] = [observer |-> Fn("f"), data |-> Self]

(***************************************************************************)
(* Vocabulary of the round properties.                                     *)
(***************************************************************************)
\* Some line of g's board is filled with one player symbol.
HasLine(g) ==
  \E line \in AllLines, symbol \in SymbolInputs : LineHolds(g, line, symbol)

\* Some cell of g's board is empty.
HasFiller(g) ==
  \E row \in BoardIndexes, col \in BoardIndexes : CellAt(g, row, col) = FILLER

\* The cells of g's board that hold a symbol.
Played(g) ==
  {cell \in BoardIndexes \X BoardIndexes : CellAt(g, cell[1], cell[2]) # FILLER}

\* The property name of the winner of g's round, and of the other player.
Winner(g) == IF Truthy(g.player1.isWinner) THEN "player1" ELSE "player2"

Loser(g) == IF Truthy(g.player1.isWinner) THEN "player2" ELSE "player1"

(***************************************************************************)
(* C22 After a round ends in a win and startNewRound is called, the player *)
(* who makes the first move of the next round is the player who did not    *)
(* just win: the winner's isCurrent is false and the loser's is true.      *)
(***************************************************************************)
C22_FirstMove(result, row, col) ==
  /\ ~IsErr(result)
  /\ CellAt(result.game, row, col) = game[Loser(game)].symbol

C22_NextRound(round) ==
  /\ ~IsErr(round)
  /\ round.game[Winner(game)].isCurrent = Bool(FALSE)
  /\ round.game[Loser(game)].isCurrent = Bool(TRUE)
  /\ getId(getCurrentPlayer(round)) = game[Loser(game)].id
  /\ \A row \in BoardIndexes, col \in BoardIndexes :
       C22_FirstMove(playTurn(round, row, col), row, col)

C22_LoserStartsNextRound ==
  IsWon(game) => C22_NextRound(startNewRound(Self))

\* Player 1 won the first round, the new round has started with the winning
\* cells still recorded, and the first symbol placed is player 2's.
C22_Witness ==
  /\ madeBy = "startNewRound"
  /\ game.winCells # INIT_WIN_CELLS
  /\ game.player1.score = Num(1)
  /\ game.player2.score = Num(0)
  /\ Played(game) = {}
  /\ game.player2.isCurrent = Bool(TRUE)
  /\ CellAt(playTurn(Self, Num(1), Num(1)).game, Num(1), Num(1)) = Str("o")

(***************************************************************************)
(* C23 Each accepted playTurn that ends a round increases exactly one of   *)
(* player 1's score, player 2's score and the tie score by exactly 1 (the  *)
(* winner's on a win, the tie score on a tie); every other transition      *)
(* leaves all three scores unchanged.                                      *)
(***************************************************************************)
C23_Scored(result, row, col) ==
  /\ ~IsErr(result)
  /\ result.game[Mover(game)].score.val =
       game[Mover(game)].score.val
         + (IF MoveWins(game, row, col) THEN 1 ELSE 0)
  /\ result.game[Waiter(game)].score = game[Waiter(game)].score
  /\ result.game.tie.score.val =
       game.tie.score.val + (IF MoveTies(game, row, col) THEN 1 ELSE 0)

C23_ScoresCountRounds ==
  /\ \A row \in BoardIndexes, col \in BoardIndexes :
       Playable(game, row, col) =>
         C23_Scored(playTurn(Self, row, col), row, col)
  /\ RoundsEnded(startNewRound(Self).game) = RoundsEnded(game)

(***************************************************************************)
(* C24 In every reachable state, tie.isTie is true exactly when the        *)
(* current round has ended in a tie, i.e. the board has no filler cell, no *)
(* line is fully populated by one symbol, and canPlay is false; it is      *)
(* false in every other state, including right after startNewRound.        *)
(***************************************************************************)
C24_IsTieIffRoundTied ==
  /\ game.tie.isTie \in {Bool(TRUE), Bool(FALSE)}
  /\ game.tie.isTie = Bool(TRUE) <=>
       (~HasFiller(game) /\ ~HasLine(game) /\ game.canPlay = Bool(FALSE))
  /\ startNewRound(Self).game.tie.isTie = Bool(FALSE)
  /\ madeBy = "startNewRound" => game.tie.isTie = Bool(FALSE)

\* A round has just ended in a tie, and a new round takes the flag down.
C24_Witness ==
  /\ madeBy = "playTurn"
  /\ game.tie.isTie = Bool(TRUE)
  /\ game.tie.score = Num(1)
  /\ ~HasFiller(game)
  /\ startNewRound(Self).game.tie.isTie = Bool(FALSE)

(***************************************************************************)
(* C27 In every reachable state, canPlay is true if and only if the board  *)
(* contains no line fully populated by one player symbol and at least one  *)
(* cell equals the filler; hence a Playable state always has a legal move  *)
(* and the line-through-last-move check never misses a completed line.     *)
(***************************************************************************)
C27_Checked(updatedBoard, row, col, symbol) ==
  hasWin(updatedBoard, row, col, symbol)
    = Bool(\E line \in AllLines : Completes(game, line, row, col, symbol))

C27_CanPlayIffOpenBoard ==
  /\ game.canPlay = Bool(~HasLine(game) /\ HasFiller(game))
  /\ game.canPlay = Bool(TRUE) =>
       \E row \in BoardIndexes, col \in BoardIndexes : Playable(game, row, col)
  /\ \A row \in BoardIndexes, col \in BoardIndexes :
       Playable(game, row, col) =>
         C27_Checked(setCell(game.board, row, col, game[Mover(game)].symbol),
                     row, col, game[Mover(game)].symbol)

\* The anti-diagonal has just been completed on a board with empty cells:
\* the round is over.
C27_Witness ==
  /\ madeBy = "playTurn"
  /\ LineHolds(game, AntiDiagLine, Str("o"))
  /\ HasFiller(game)
  /\ game.canPlay = Bool(FALSE)

(***************************************************************************)
(* C28 In every reachable state exactly one player has isCurrent = true    *)
(* (also in Won and Tied states) and at most one player has isWinner =     *)
(* true; when a player has isWinner = true, canPlay is false, that player  *)
(* placed the last symbol of the round, its isCurrent is false and the     *)
(* other player's isCurrent is true.                                       *)
(***************************************************************************)
\* The number of cells of g's board that hold the symbol.
Count(g, symbol) ==
  Cardinality({cell \in Played(g) : CellAt(g, cell[1], cell[2]) = symbol})

C28_WinnerMoved(result) ==
  (~IsErr(result) /\ IsWon(result.game)) =>
    /\ Winner(result.game) = Mover(game)
    /\ Count(result.game, game[Mover(game)].symbol)
         = Count(game, game[Mover(game)].symbol) + 1

C28_OneCurrentOneWinner ==
  /\ {game.player1.isCurrent, game.player2.isCurrent}
       = {Bool(TRUE), Bool(FALSE)}
  /\ {game.player1.isWinner, game.player2.isWinner}
       \in {{Bool(FALSE)}, {Bool(TRUE), Bool(FALSE)}}
  /\ IsWon(game) =>
       /\ game.canPlay = Bool(FALSE)
       /\ game[Winner(game)].isCurrent = Bool(FALSE)
       /\ game[Loser(game)].isCurrent = Bool(TRUE)
       /\ madeBy = "playTurn"
       /\ \E line \in AllLines :
            /\ game.winCells = Arr(line)
            /\ LineHolds(game, line, game[Winner(game)].symbol)
       /\ Count(game, game[Winner(game)].symbol)
            >= Count(game, game[Loser(game)].symbol)
  /\ \A row \in BoardIndexes, col \in BoardIndexes :
       Playable(game, row, col) => C28_WinnerMoved(playTurn(Self, row, col))

\* Player 2 has won a round with the middle row: it is the winner, and the
\* turn is player 1's.
C28_Witness ==
  /\ game.player2.isWinner = Bool(TRUE)
  /\ game.player1.isWinner = Bool(FALSE)
  /\ game.player1.isCurrent = Bool(TRUE)
  /\ game.player2.isCurrent = Bool(FALSE)
  /\ LineHolds(game, RowLine(1), Str("o"))

(***************************************************************************)
(* C29 When the accepted move that fills the last empty cell of the board  *)
(* also completes a line for the mover, the round is resolved as Won and   *)
(* not as Tied: the mover's score is incremented, tie.isTie stays false    *)
(* and the tie score is unchanged.                                         *)
(***************************************************************************)
C29_Won(result) ==
  /\ ~IsErr(result)
  /\ result.game[Mover(game)].isWinner = Bool(TRUE)
  /\ result.game[Mover(game)].score.val = game[Mover(game)].score.val + 1
  /\ result.game.tie.isTie = Bool(FALSE)
  /\ result.game.tie.score = game.tie.score
  /\ result.game.canPlay = Bool(FALSE)

C29_LastCellWinIsAWin ==
  \A row \in BoardIndexes, col \in BoardIndexes :
    (Playable(game, row, col) /\ MoveFills(game, row, col)
       /\ MoveWins(game, row, col)) =>
      C29_Won(playTurn(Self, row, col))

(***************************************************************************)
(* C30 Within a round, once a cell holds a player's symbol it holds the    *)
(* same symbol in every later state reached by playTurn calls, until       *)
(* startNewRound is called: no playTurn step changes or clears a played    *)
(* cell.                                                                   *)
(***************************************************************************)
C30_Kept ==
  madeBy' = "playTurn" =>
    \A row \in BoardIndexes, col \in BoardIndexes :
      CellAt(game, row, col) # FILLER =>
        CellAt(game', row, col) = CellAt(game, row, col)

C30_PlayedCellsStay == [][C30_Kept]_vars

\* A third symbol has been placed and the two placed before it are where
\* they were.
C30_Witness ==
  /\ madeBy = "playTurn"
  /\ Played(game) = {<<Num(0), Num(0)>>, <<Num(1), Num(1)>>, <<Num(0), Num(1)>>}
  /\ CellAt(game, Num(0), Num(0)) = Str("x")
  /\ CellAt(game, Num(1), Num(1)) = Str("o")
  /\ CellAt(game, Num(0), Num(1)) = Str("x")

(***************************************************************************)
(* C25 Player.setName with a name longer than 12 characters does not fail: *)
(* it returns a player whose name is the first 12 characters of the given  *)
(* name; names of 1 to 12 characters are stored unchanged.                 *)
(***************************************************************************)
C25_Stored(result, newName) ==
  /\ ~IsErr(result)
  /\ getName(result) = Str(slice(newName.val, 12))
  /\ Len(newName.val) <= 12 => getName(result) = newName

C25_LongNameIsTruncated ==
  \A newName \in PlayerNameInputs :
    (typeof(newName) = "string" /\ Len(newName.val) >= 1) =>
      C25_Stored(setName(player, newName), newName)

(***************************************************************************)
(* C26 Every Player construction is self-validating: makePlayer (called    *)
(* directly or through any setter) fails whenever any held field violates  *)
(* its invariant (id not a non-negative integer, name not a string of 1 to *)
(* 12 characters, symbol not exactly one character, isCurrent or isWinner  *)
(* not a boolean, score not a non-negative integer), so no Player instance *)
(* with an invalid field can exist.                                        *)
(***************************************************************************)
\* Every field the state object holds (one that is not undefined) satisfies
\* its invariant; isWinner and score are always held.
C26_Held(p) ==
  /\ p.id = Undefined \/ (typeof(p.id) = "number" /\ p.id.val >= 0)
  /\ p.name = Undefined
       \/ (typeof(p.name) = "string" /\ Len(p.name.val) \in 1..12)
  /\ p.symbol = Undefined
       \/ (typeof(p.symbol) = "string" /\ Len(p.symbol.val) = 1)
  /\ p.isCurrent = Undefined \/ typeof(p.isCurrent) = "boolean"
  /\ typeof(p.isWinner) = "boolean"
  /\ typeof(p.score) = "number" /\ p.score.val >= 0

C26_NoInvalidPlayer ==
  /\ C26_Held(player)
  /\ \A candidate \in PlayerInputs :
       ~C26_Held(candidate) => IsErr(makePlayer(candidate))

(***************************************************************************)
(* Vocabulary of the call sequences: two calls made one after the other,   *)
(* the second from a callback the first notifies or after the first        *)
(* returned.  A call is a record of the function and its arguments.        *)
(***************************************************************************)
PlayTurnCall(row, col) == [function |-> "playTurn", row |-> row, col |-> col]

StartNewRoundCall ==
  [function |-> "startNewRound", row |-> Undefined, col |-> Undefined]

\* The calls on the observed game.
ObservedCalls ==
  {PlayTurnCall(cell[1], cell[2]) : cell \in ObservedCells}
    \cup {StartNewRoundCall}

\* What the call returns or throws on the instance.
Invoke(self, call) ==
  IF call.function = "playTurn"
    THEN playTurn(self, call.row, call.col)
    ELSE startNewRound(self)

\* The instance the call was made on, as it reads after the call.
InstanceAfter(self, call) ==
  [self EXCEPT !.game =
     IF call.function = "playTurn"
       THEN gameAfterPlayTurn(self, call.row, call.col)
       ELSE gameAfterStartNewRound(self)]

\* The instance the first call returned, as it reads after the second call
\* on the instance both are made on: its grid is written by the second call
\* when it is the array that call writes.
ReturnedAfter(self, first, second) ==
  IF IsErr(Invoke(self, first)) THEN Invoke(self, first)
  ELSE IF first.function = "playTurn" /\ returnedGridRef("grid") = "grid"
    THEN [Invoke(self, first) EXCEPT !.game.board.grid =
            InstanceAfter(InstanceAfter(self, first), second).game.board.grid]
  ELSE Invoke(self, first)

(***************************************************************************)
(* C21 Transitions are safe under reentrant or interleaved invocation: a   *)
(* playTurn or startNewRound invoked from inside an observer callback      *)
(* during notification, or invoked on an instance on which another         *)
(* transition has already been performed, returns the same result as if it *)
(* were the only call on that instance, and changes neither that instance  *)
(* nor the game returned by the other transition.                          *)
(***************************************************************************)
C21_Alone(first, second) ==
  /\ Invoke(InstanceAfter(Self, first), second) = Invoke(Self, second)
  /\ InstanceAfter(InstanceAfter(Self, first), second) = Self
  /\ ReturnedAfter(Self, first, second) = Invoke(Self, first)
  /\ ~IsErr(Invoke(Self, first)) =>
       InstanceAfter(Invoke(Self, first), second) = Invoke(Self, first)

CellSet(cells) == {cells[i] : i \in 1..Len(cells)}

C31_Line(won, row, col) ==
  /\ isArray(won.winCells)
  /\ Len(won.winCells.val) = 3
  /\ Cardinality(CellSet(won.winCells.val)) = 3
  /\ \E line \in AllLines : CellSet(line) = CellSet(won.winCells.val)
  /\ [row |-> row, col |-> col] \in CellSet(won.winCells.val)
  /\ \A cell \in CellSet(won.winCells.val) :
       CellAt(won, cell.row, cell.col) = won[Winner(won)].symbol

C31_Returned(result, row, col) ==
  (~IsErr(result) /\ IsWon(result.game)) => C31_Line(result.game, row, col)

C31_WinCellsAreOneLine ==
  \A row \in IndexInputs, col \in IndexInputs :
    C31_Returned(playTurn(Self, row, col), row, col)

\* Player 1 needs the centre to complete the anti-diagonal, and playTurn on
\* the centre returns a won state.
C31_Witness ==
  /\ Playable(game, Num(1), Num(1))
  /\ Completes(game, AntiDiagLine, Num(1), Num(1), Str("x"))
  /\ ~IsErr(playTurn(Self, Num(1), Num(1)))
  /\ playTurn(Self, Num(1), Num(1)).game.player1.isWinner = Bool(TRUE)

(***************************************************************************)
(* C32 In every reachable state the number of cells holding "x" and the    *)
(* number of cells holding "o" differ by at most 1, and every cell holds   *)
(* the filler, "x" or "o", whichever player starts a round and however     *)
(* many rounds are played.                                                 *)
(***************************************************************************)
C32_BalancedBoard ==
  /\ Count(game, Str("x")) - Count(game, Str("o")) \in {-1, 0, 1}
  /\ \A row \in BoardIndexes, col \in BoardIndexes :
       CellAt(game, row, col) \in {FILLER, Str("x"), Str("o")}

\* A second round that player 2 started: the board holds one more "o" than
\* "x".
C32_Witness ==
  /\ RoundsEnded(game) = 1
  /\ Count(game, Str("o")) = 2
  /\ Count(game, Str("x")) = 1

(***************************************************************************)
(* C33 After a round ends in a tie and startNewRound is called, the player *)
(* who makes the first move of the next round is the player who did not    *)
(* make the last move of the tied round, which is the player who did not   *)
(* start the tied round; so the starting player alternates across tied     *)
(* rounds.                                                                 *)
(***************************************************************************)
\* The player who started the round that filled the board of g: the one
\* with five symbols on it.
C33_Starter(g) ==
  IF Count(g, g.player1.symbol) > Count(g, g.player2.symbol)
    THEN "player1" ELSE "player2"

C33_Other(g) == IF C33_Starter(g) = "player1" THEN "player2" ELSE "player1"

C33_FirstMove(result, row, col) ==
  /\ ~IsErr(result)
  /\ CellAt(result.game, row, col) = game[C33_Other(game)].symbol

C33_NextRound(round) ==
  /\ ~IsErr(round)
  /\ round.game[C33_Starter(game)].isCurrent = Bool(FALSE)
  /\ round.game[C33_Other(game)].isCurrent = Bool(TRUE)
  /\ \A row \in BoardIndexes, col \in BoardIndexes :
       C33_FirstMove(playTurn(round, row, col), row, col)

C33_TieAlternatesStart ==
  game.tie.isTie = Bool(TRUE) =>
    /\ Count(game, game[C33_Starter(game)].symbol) = 5
    /\ Count(game, game[C33_Other(game)].symbol) = 4
    /\ game[C33_Starter(game)].isCurrent = Bool(FALSE)
    /\ C33_NextRound(startNewRound(Self))

\* A tied round that player 2 started, after which player 1 starts.
C33_Witness ==
  /\ game.tie.isTie = Bool(TRUE)
  /\ Count(game, Str("o")) = 5
  /\ startNewRound(Self).game.player1.isCurrent = Bool(TRUE)
  /\ startNewRound(Self).game.player2.isCurrent = Bool(FALSE)

(***************************************************************************)
(* C34 startNewRound is accepted in every state, not only Won or Tied:     *)
(* called while canPlay is true with moves already on the board, it        *)
(* empties the board and leaves all three scores, both isWinner flags and  *)
(* the identity of the current player unchanged, so the abandoned round    *)
(* counts for nobody and the player whose turn it was moves first.         *)
(***************************************************************************)
C34_FirstMove(result, row, col) ==
  /\ ~IsErr(result)
  /\ CellAt(result.game, row, col) = game[Mover(game)].symbol

C34_Abandoned(round) ==
  /\ ~IsErr(round)
  /\ Played(round.game) = {}
  /\ round.game.canPlay = Bool(TRUE)
  /\ round.game.player1.score = game.player1.score
  /\ round.game.player2.score = game.player2.score
  /\ round.game.tie.score = game.tie.score
  /\ round.game.player1.isWinner = game.player1.isWinner
  /\ round.game.player2.isWinner = game.player2.isWinner
  /\ round.game.player1.isCurrent = game.player1.isCurrent
  /\ round.game.player2.isCurrent = game.player2.isCurrent
  /\ getId(getCurrentPlayer(round)) = getId(getCurrentPlayer(Self))
  /\ \A row \in BoardIndexes, col \in BoardIndexes :
       C34_FirstMove(playTurn(round, row, col), row, col)

C34_NewRoundAnyTime ==
  /\ ~IsErr(startNewRound(Self))
  /\ game.canPlay = Bool(TRUE) => C34_Abandoned(startNewRound(Self))

\* A round in play with three symbols on the board and player 2 to move:
\* startNewRound empties the board and player 2 is still to move.
C34_Witness ==
  /\ game.canPlay = Bool(TRUE)
  /\ Cardinality(Played(game)) = 3
  /\ game.player2.isCurrent = Bool(TRUE)
  /\ Played(startNewRound(Self).game) = {}
  /\ startNewRound(Self).game.player2.isCurrent = Bool(TRUE)

(***************************************************************************)
(* C35 The index check precedes the playability check: playTurn with an    *)
(* out-of-range row or col fails with the index error also when canPlay is *)
(* false or the board is full, instead of being treated as a silently      *)
(* ignored move.                                                           *)
(***************************************************************************)
C35_IndexError ==
  Err("Index must be a positive integer within the board size.")

C35_IndexCheckedFirst ==
  \A row \in IndexInputs, col \in IndexInputs :
    ({row, col} \subseteq BoardIndexes) \/ playTurn(Self, row, col) = C35_IndexError

\* A round that is over: playTurn out of the board fails with the index
\* error, and not as playTurn does on a cell of the board.
C35_Witness ==
  /\ game.canPlay = Bool(FALSE)
  /\ playTurn(Self, Num(3), Num(0)) = C35_IndexError
  /\ playTurn(Self, Num(0), Num(-1)) = C35_IndexError
  /\ playTurn(Self, Num(0), Num(0)) # C35_IndexError

(***************************************************************************)
(* C37 Every round terminates: from any Playable state, at most 9 accepted *)
(* playTurn moves can occur before canPlay becomes false, and if accepted  *)
(* moves keep being played the game eventually reaches a Won or Tied       *)
(* state.                                                                  *)
(***************************************************************************)
\* An accepted move returns a state with one more symbol on the board, so
\* the number of empty cells measures the moves left.
C37_Advances(result) ==
  /\ ~IsErr(result)
  /\ Cardinality(Played(result.game)) = Cardinality(Played(game)) + 1
  /\ Cardinality(Played(result.game)) = 9 => result.game.canPlay = Bool(FALSE)

C37_RoundTerminates ==
  \A row \in BoardIndexes, col \in BoardIndexes :
    Playable(game, row, col) => C37_Advances(playTurn(Self, row, col))

(***************************************************************************)
(* C38 An accepted playTurn that does not end the round changes exactly    *)
(* one board cell and the two isCurrent flags (and sets winCells to the    *)
(* null placeholders); both scores, both isWinner flags, the tie, canPlay, *)
(* and every player's id, name and symbol are the same in the resulting    *)
(* state as before.                                                        *)
(***************************************************************************)
C38_SamePlayer(before, after) ==
  /\ after.id = before.id
  /\ after.name = before.name
  /\ after.symbol = before.symbol
  /\ after.score = before.score
  /\ after.isWinner = before.isWinner
  /\ after.isCurrent = Bool(~before.isCurrent.val)

C38_Frame(result, row, col) ==
  /\ ~IsErr(result)
  /\ SameBoardBut(game, result.game, row, col)
  /\ CellAt(result.game, row, col) # CellAt(game, row, col)
  /\ result.game.board.size = game.board.size
  /\ result.game.board.filler = game.board.filler
  /\ C38_SamePlayer(game.player1, result.game.player1)
  /\ C38_SamePlayer(game.player2, result.game.player2)
  /\ result.game.tie = game.tie
  /\ result.game.canPlay = game.canPlay
  /\ result.game.winCells = INIT_WIN_CELLS
  /\ result.namePlayer1 = namePlayer1
  /\ result.namePlayer2 = namePlayer2

C38_ContinuingMoveFrame ==
  \A row \in BoardIndexes, col \in BoardIndexes :
    (Playable(game, row, col) /\ ~MoveWins(game, row, col)
       /\ ~MoveFills(game, row, col)) =>
      C38_Frame(playTurn(Self, row, col), row, col)

\* A second round with a score of 1 and the winning cells of the first round
\* still recorded: the first move keeps the score and clears the cells.
C38_Witness ==
  /\ game.player1.score = Num(1)
  /\ game.winCells # INIT_WIN_CELLS
  /\ Playable(game, Num(1), Num(1))
  /\ ~IsErr(playTurn(Self, Num(1), Num(1)))
  /\ playTurn(Self, Num(1), Num(1)).game.player1.score = Num(1)
  /\ playTurn(Self, Num(1), Num(1)).game.winCells = INIT_WIN_CELLS
  /\ playTurn(Self, Num(1), Num(1)).game.canPlay = Bool(TRUE)

(***************************************************************************)
(* C36 A playTurn that produces no new state, a no-op (round over or cell  *)
(* occupied) or a call that fails, invokes no observer; observers are      *)
(* invoked only by accepted moves and by startNewRound.                    *)
(***************************************************************************)
C36_Calls(result, row, col) ==
  IF Playable(game, row, col) /\ ~IsErr(result)
    THEN playTurnNotifies(Self, observers, row, col) = CallsFor(result)
    ELSE playTurnNotifies(Self, observers, row, col) = <<>>

C39_Own(data) ==
  updateApplies(changes, data)
    = (IF Truthy(data.fromMiddleware) THEN updatePushes(data) ELSE <<>>)

C39_AppliesOnlyItsOwnChanges ==
  /\ changes = <<>>
  /\ \A data \in DataInputs : C39_Own(data)

====
